---------------------------- MODULE Spec2Model ----------------------------
(***************************************************************************)
(* Model of the signing proxy: BinanceAuth (constructor, generateSignature,*)
(* createSignedParams, getHeaders, makeRequest), the route handlers that   *)
(* call makeRequest and hand failures to next(error), and errorHandler.    *)
(*                                                                         *)
(* JavaScript strings that the code inspects character by character        *)
(* (parameter keys and values, query strings) are sequences of UTF-16 code *)
(* units.  Strings the code only copies or compares as a whole (messages,  *)
(* error codes, header names) are TLA+ strings.                            *)
(***************************************************************************)
EXTENDS Integers, Sequences, FiniteSets, TLC

VARIABLES
    env,          \* process.env: BINANCE_API_KEY, BINANCE_API_SECRET, NODE_ENV
    proc,         \* "starting" | "constructed" | "serving" | "crashed"
    binance,      \* the BinanceAuth instance (routes/binance.js:6)
    startupLog,   \* what the app.listen callback logged about the env
    pc,           \* position of the request in flight
    call,         \* arguments of the current makeRequest call, as passed
    callerParams, \* the caller's params object, as the caller sees it now
                  \* (empty while no request is in flight)
    params,       \* the local variable params of makeRequest
    signing,      \* what createSignedParams signed in this call
    config,       \* the axios config of this call
    outcome,      \* what `await axios(config)` produced, or the caught error
    result,       \* what makeRequest returned or threw
    res           \* the HTTP response rendered to the proxy's client

vars == <<env, proc, binance, startupLog, pc, call, callerParams, params,
          signing, config, outcome, result, res>>

(***************************************************************************)
(* Bounds                                                                  *)
(***************************************************************************)
\* largest number of entries in a params object passed by a caller
MaxParams == 2

(***************************************************************************)
(* JavaScript values                                                       *)
(***************************************************************************)
Undef == [k |-> "undefined"]
Num(n) == [k |-> "number", n |-> n]
Str(s) == [k |-> "string", s |-> s]
\* a string held as its UTF-16 code units
Units(u) == [k |-> "units", u |-> u]

\* ToBoolean, as `!x`, `a || b` and `if (x)` apply it
Truthy(v) ==
    CASE v.k = "undefined" -> FALSE
      [] v.k = "number"    -> v.n # 0
      [] v.k = "string"    -> v.s # ""
      [] v.k = "units"     -> v.u # <<>>
      [] OTHER             -> TRUE

\* a || b
Or(a, b) == IF Truthy(a) THEN a ELSE b

\* o.name, undefined when o is undefined-safe (o?.name) or lacks the property
Field(o, name) == IF name \in DOMAIN o THEN o[name] ELSE Undef

(***************************************************************************)
(* Strings as sequences of UTF-16 code units                               *)
(***************************************************************************)
K_coin      == <<99, 111, 105, 110>>
K_symbol    == <<115, 121, 109, 98, 111, 108>>
K_signature == <<115, 105, 103, 110, 97, 116, 117, 114, 101>>

K_timestamp == <<116, 105, 109, 101, 115, 116, 97, 109, 112>>

V_BTC       == <<66, 84, 67>>        \* "BTC"
V_space     == <<97, 32, 98>>        \* "a b"
V_surrogate == <<55296>>             \* "\uD800", a lone surrogate

CallerKeys   == {K_coin, K_symbol, K_signature}
CallerValues == {Units(V_BTC), Units(V_space), Units(V_surrogate)}

RECURSIVE Digits(_)
\* decimal digits of a non-negative integer, as Number.prototype.toString
Digits(n) ==
    IF n < 10 THEN <<48 + n>> ELSE Digits(n \div 10) \o <<48 + (n % 10)>>

\* ToString of a scalar parameter value
ToStr(v) == IF v.k = "number" THEN Digits(v.n) ELSE v.u

\* s < t in code-unit order, the order of Array.prototype.sort()
RECURSIVE StrLess(_, _)
StrLess(s, t) ==
    IF t = <<>> THEN FALSE
    ELSE IF s = <<>> THEN TRUE
    ELSE IF s[1] # t[1] THEN s[1] < t[1]
    ELSE StrLess(Tail(s), Tail(t))

\* characters encodeURIComponent leaves alone: A-Z a-z 0-9 - _ . ! ~ * ' ( )
Unreserved ==
    (65..90) \cup (97..122) \cup (48..57) \cup {45, 95, 46, 33, 126, 42, 39, 40, 41}

HexUpper(d) == IF d < 10 THEN 48 + d ELSE 55 + d
HexLower(d) == IF d < 10 THEN 48 + d ELSE 87 + d
PercentByte(b) == <<37, HexUpper(b \div 16), HexUpper(b % 16)>>

IsSurrogate(c) == c >= 55296 /\ c <= 57343

\* UTF-8 percent-encoding of one code unit outside the surrogate range
EncodeUnit(c) ==
    IF c \in Unreserved THEN <<c>>
    ELSE IF c < 128 THEN PercentByte(c)
    ELSE IF c < 2048 THEN PercentByte(192 + (c \div 64)) \o PercentByte(128 + (c % 64))
    ELSE PercentByte(224 + (c \div 4096)) \o PercentByte(128 + ((c \div 64) % 64))
         \o PercentByte(128 + (c % 64))

RECURSIVE EncodeUnits(_)
EncodeUnits(s) ==
    IF s = <<>> THEN <<>> ELSE EncodeUnit(Head(s)) \o EncodeUnits(Tail(s))

\* encodeURIComponent throws URIError on a lone surrogate
Throws(v) == \E i \in 1..Len(ToStr(v)) : IsSurrogate(ToStr(v)[i])

\* encodeURIComponent(v), defined when ~Throws(v)
encodeURIComponent(v) == EncodeUnits(ToStr(v))

(***************************************************************************)
(* Objects: entries in insertion order (no array-index keys occur)         *)
(***************************************************************************)
RECURSIVE Distinct(_)
Distinct(keys) ==
    IF keys = <<>> THEN TRUE
    ELSE (\A i \in 2..Len(keys) : keys[i] # keys[1]) /\ Distinct(Tail(keys))

\* Object.keys(o)
ObjectKeys(o) == [i \in 1..Len(o) |-> o[i].key]

HasKey(o, key) == \E i \in 1..Len(o) : o[i].key = key

\* o[key]
Get(o, key) ==
    IF HasKey(o, key) THEN o[CHOOSE i \in 1..Len(o) : o[i].key = key].val ELSE Undef

\* o[key] = v: an existing key keeps its position, a new key goes last
Set(o, key, v) ==
    IF HasKey(o, key)
    THEN [i \in 1..Len(o) |-> IF o[i].key = key THEN [key |-> key, val |-> v] ELSE o[i]]
    ELSE Append(o, [key |-> key, val |-> v])

\* the params objects a caller may pass
ParamObjects ==
    UNION { { o \in [1..m -> [key : CallerKeys, val : CallerValues]] :
                Distinct(ObjectKeys(o)) } : m \in 0..MaxParams }

\* keys.sort()
RECURSIVE Sort(_)
Sort(keys) ==
    IF keys = <<>> THEN <<>>
    ELSE LET m == CHOOSE i \in 1..Len(keys) :
                    \A j \in 1..Len(keys) : ~StrLess(keys[j], keys[i])
             rest == [j \in 1..(Len(keys) - 1) |-> IF j < m THEN keys[j] ELSE keys[j + 1]]
         IN  <<keys[m]>> \o Sort(rest)

\* keys.map(key => `${key}=${encodeURIComponent(o[key])}`).join('&')
RECURSIVE JoinPairs(_, _)
JoinPairs(keys, o) ==
    IF keys = <<>> THEN <<>>
    ELSE LET pair == Head(keys) \o <<61>> \o encodeURIComponent(Get(o, Head(keys)))
         IN  IF Len(keys) = 1 THEN pair
             ELSE pair \o <<38>> \o JoinPairs(Tail(keys), o)

\* the map callback throws for some key of o
AnyThrows(o) == \E i \in 1..Len(o) : Throws(o[i].val)


(***************************************************************************)
(* BinanceAuth                                                             *)
(***************************************************************************)
\* a guard that lets a client with only one credential through
CredentialsMissingBoth(apiKey, apiSecret) == ~Truthy(apiKey) /\ ~Truthy(apiSecret)

\* the guard of the constructor: it throws when this holds
CredentialsMissing(apiKey, apiSecret) == ~Truthy(apiKey) \/ ~Truthy(apiSecret)

\* new BinanceAuth(), defined when the constructor does not throw
BinanceAuth(e) ==
    [k         |-> "object",
     apiKey    |-> e.BINANCE_API_KEY,
     apiSecret |-> e.BINANCE_API_SECRET,
     baseURL   |-> Or(e.BINANCE_BASE_URL, Str("https://api.binance.com"))]

RECURSIVE WeightedSum(_, _)
WeightedSum(s, i) ==
    IF s = <<>> THEN 0 ELSE (i * Head(s) + WeightedSum(Tail(s), i + 1)) % 256

\* crypto.createHmac('sha256', secret).update(queryString).digest('hex'):
\* a deterministic keyed digest in lowercase hex (one byte wide here)
generateSignature(self, queryString) ==
    LET h == (31 * WeightedSum(self.apiSecret.u, 1) + WeightedSum(queryString, 1)) % 256
    IN  <<HexLower(h \div 16), HexLower(h % 16)>>

\* params.timestamp = Date.now(): the caller's object after the assignment
WithTimestamp(p, now) == Set(p, K_timestamp, Num(now))

\* createSignedParams(p) with Date.now() = now
createSignedParams(self, p, now) ==
    LET stamped == WithTimestamp(p, now)
    IN  IF AnyThrows(stamped)
        THEN [threw |-> TRUE, stamped |-> stamped]
        ELSE LET queryString == JoinPairs(Sort(ObjectKeys(stamped)), stamped)
                 signature   == generateSignature(self, queryString)
             IN  [threw       |-> FALSE,
                  stamped     |-> stamped,
                  queryString |-> queryString,
                  signature   |-> signature,
                  value       |-> Set(stamped, K_signature, Units(signature))]

\* headers that carry the secret where the key belongs
getHeadersSecret(self) ==
    ("X-MBX-APIKEY" :> self.apiSecret)
    @@ ("Content-Type" :> Str("application/json"))
    @@ ("User-Agent" :> Str("LockBay-Binance-Proxy/1.0.0"))

\* getHeaders()
getHeaders(self) ==
    ("X-MBX-APIKEY" :> self.apiKey)
    @@ ("Content-Type" :> Str("application/json"))
    @@ ("User-Agent" :> Str("LockBay-Binance-Proxy/1.0.0"))

Methods == {"GET", "POST", "PUT", "DELETE"}

\* method.toLowerCase()
toLowerCase(method) ==
    CASE method = "GET"    -> "get"
      [] method = "POST"   -> "post"
      [] method = "PUT"    -> "put"
      [] method = "DELETE" -> "delete"
      [] OTHER             -> method

\* a routing test that also sends the params of DELETE in the URL
ParamsInUrlOrDelete(method) == toLowerCase(method) \in {"get", "delete"}

\* the test that sends the params in the URL
ParamsInUrl(method) == toLowerCase(method) = "get"

\* a config without the timeout (axios then waits without limit)
RequestConfigNoTimeout(self, method, endpoint) ==
    [method  |-> method,
     url     |-> [base |-> self.baseURL, path |-> endpoint, query |-> Undef],
     headers |-> getHeaders(self),
     timeout |-> 0,
     data    |-> Undef]

\* the config object literal of makeRequest
RequestConfig(self, method, endpoint) ==
    [method  |-> method,
     url     |-> [base |-> self.baseURL, path |-> endpoint, query |-> Undef],
     headers |-> getHeaders(self),
     timeout |-> 30000,
     data    |-> Undef]

\* the config after the routing of params, defined when nothing throws
RoutedConfig(self, method, endpoint, p) ==
    LET c == RequestConfig(self, method, endpoint)
    IN  IF ParamsInUrl(method)
        THEN IF Len(ObjectKeys(p)) > 0
             THEN [c EXCEPT !.url.query = Units(JoinPairs(ObjectKeys(p), p))]
             ELSE c
        ELSE [c EXCEPT !.data = [k |-> "object", entries |-> p]]

\* a signing step that ignores requiresSignature
SignAlways(self, p, requiresSignature, now) ==
    LET signed == createSignedParams(self, p, now)
    IN  [threw   |-> signed.threw,
         caller  |-> signed.stamped,
         local   |-> IF signed.threw THEN signed.stamped ELSE signed.value,
         signing |-> signed]

\* `if (requiresSignature) params = this.createSignedParams(params)`:
\* the caller's object and the local params afterwards, and what was signed
SignIfRequired(self, p, requiresSignature, now) ==
    IF requiresSignature
    THEN LET signed == createSignedParams(self, p, now)
         IN  [threw   |-> signed.threw,
              caller  |-> signed.stamped,
              local   |-> IF signed.threw THEN signed.stamped ELSE signed.value,
              signing |-> signed]
    ELSE [threw |-> FALSE, caller |-> p, local |-> p, signing |-> Undef]

\* building the query string of a GET request throws
RoutingThrows(method, p) == ParamsInUrl(method) /\ AnyThrows(p)

\* the URIError encodeURIComponent throws
URIError == [k |-> "error", message |-> Str("URI malformed")]

\* the object the catch block of makeRequest throws for a caught error
Thrown(error) ==
    LET response == Field(error, "response")
        data     == Field(response, "data")
    IN  [k       |-> "object",
         success |-> FALSE,
         error   |-> Or(data, [k |-> "object", msg |-> Field(error, "message")]),
         status  |-> Or(Field(response, "status"), Num(500)),
         code    |-> Or(Field(data, "code"), Str("REQUEST_FAILED"))]

\* the object makeRequest returns for a response
Returned(response) ==
    [k |-> "object", success |-> TRUE, data |-> response.data, status |-> response.status]

(***************************************************************************)
(* errorHandler                                                            *)
(***************************************************************************)
\* errorHandler(err, req, res, next): the status and the JSON body it sends
\* (the timestamp field of the body is left out)
errorHandler(err, nodeEnv) ==
    LET response == Field(err, "response")
        data     == Field(response, "data")
    IN  IF Truthy(response) /\ Truthy(data)
        THEN [status |-> Or(Field(response, "status"), Num(500)),
              body   |-> [error   |-> "Binance API Error",
                          message |-> Or(Field(data, "msg"), Field(err, "message")),
                          code    |-> Or(Field(data, "code"), Str("UNKNOWN_ERROR"))]]
        ELSE IF Field(err, "code") = Str("ECONNREFUSED") \/ Field(err, "code") = Str("ENOTFOUND")
        THEN [status |-> Num(503),
              body   |-> [error   |-> "Service Unavailable",
                          message |-> Str("Unable to connect to Binance API"),
                          code    |-> Str("CONNECTION_ERROR")]]
        ELSE [status |-> Or(Field(err, "status"), Num(500)),
              body   |-> [error   |-> "Internal Server Error",
                          message |-> IF nodeEnv = Str("production")
                                      THEN Str("Something went wrong")
                                      ELSE Field(err, "message")]]

\* the response a route handler sends after makeRequest returned
RouteJson(r) ==
    [status |-> Num(200), body |-> [success |-> TRUE, data |-> r.data]]

(***************************************************************************)
(* The upstream and the HTTP client                                        *)
(***************************************************************************)
Endpoints == {"/api/v3/account", "/api/v3/ticker/price"}

\* readings of Date.now()
Clock == {1000, 1001}

KeyValues    == {Undef, Units(<<>>), Units(<<75>>)}     \* unset, "", "K"
SecretValues == {Undef, Units(<<>>), Units(<<83>>)}     \* unset, "", "S"

SuccessStatus == {200}
ErrorStatus   == {400, 500}

SuccessBodies == {[k |-> "object", accountType |-> Str("SPOT")]}
ErrorBodies ==
    {[k |-> "object", code |-> Num(-1021), msg |-> Str("Timestamp outside recvWindow")],
     [k |-> "object", msg |-> Str("Internal error")],
     Str("")}

\* the error axios rejects with for a response outside 2xx
AxiosStatusError(status, data) ==
    [k        |-> "error",
     message  |-> Str("Request failed with status code " \o ToString(status)),
     response |-> [k |-> "object", status |-> Num(status), data |-> data]]

\* the error axios rejects with when no response arrived
AxiosNoResponse(code) ==
    [k       |-> "error",
     code    |-> Str(code),
     message |-> CASE code = "ECONNREFUSED" -> Str("connect ECONNREFUSED")
                   [] code = "ENOTFOUND"    -> Str("getaddrinfo ENOTFOUND api.binance.com")
                   [] OTHER                 -> Str("timeout of 30000ms exceeded")]

(***************************************************************************)
(* Behaviour                                                               *)
(***************************************************************************)
Init ==
    /\ env \in [BINANCE_API_KEY    : KeyValues,
                BINANCE_API_SECRET : SecretValues,
                BINANCE_BASE_URL   : {Undef},
                NODE_ENV           : {Undef, Str("production")}]
    /\ proc = "starting"
    /\ binance = Undef
    /\ startupLog = Undef
    /\ pc = "idle"
    /\ call = Undef
    /\ callerParams = <<>>
    /\ params = <<>>
    /\ signing = Undef
    /\ config = Undef
    /\ outcome = Undef
    /\ result = Undef
    /\ res = Undef

\* routes/binance.js is loaded: `const binance = new BinanceAuth()`
Startup ==
    /\ proc = "starting"
    /\ IF CredentialsMissing(env.BINANCE_API_KEY, env.BINANCE_API_SECRET)
       THEN proc' = "crashed" /\ UNCHANGED binance
       ELSE proc' = "constructed" /\ binance' = BinanceAuth(env)
    /\ UNCHANGED <<env, startupLog, pc, call, callerParams, params, signing,
                   config, outcome, result, res>>

\* the app.listen callback
Listen ==
    /\ proc = "constructed"
    /\ proc' = "serving"
    /\ startupLog' = IF ~Truthy(env.BINANCE_API_KEY) \/ ~Truthy(env.BINANCE_API_SECRET)
                     THEN Str("Missing required environment variables")
                     ELSE Str("All required environment variables are set")
    /\ UNCHANGED <<env, binance, pc, call, callerParams, params, signing,
                   config, outcome, result, res>>

\* makeRequest(method, endpoint, passed, requiresSignature) up to its await
MakeRequest(method, endpoint, passed, requiresSignature, now) ==
    /\ call' = [method |-> method, endpoint |-> endpoint, params |-> passed,
                requiresSignature |-> requiresSignature]
    /\ UNCHANGED res
    /\ LET s == SignIfRequired(binance, passed, requiresSignature, now)
       IN  /\ callerParams' = s.caller
           /\ params' = s.local
           /\ signing' = s.signing
           /\ IF s.threw \/ RoutingThrows(method, s.local)
              THEN /\ config' = Undef
                   /\ outcome' = URIError
                   /\ result' = Thrown(URIError)
                   /\ pc' = "thrown"
              ELSE /\ config' = RoutedConfig(binance, method, endpoint, s.local)
                   /\ outcome' = Undef
                   /\ result' = Undef
                   /\ pc' = "pending"
    /\ UNCHANGED <<env, proc, binance, startupLog>>

\* a route handler runs for an inbound request and calls makeRequest
RouteHandler ==
    /\ proc = "serving"
    /\ pc = "idle"
    /\ \E method \in Methods, endpoint \in Endpoints, passed \in ParamObjects,
          requiresSignature \in BOOLEAN, now \in Clock :
            MakeRequest(method, endpoint, passed, requiresSignature, now)

\* the upstream answers
AxiosResponse(status, data) ==
    /\ pc = "pending"
    /\ IF status \in SuccessStatus
       THEN /\ outcome' = [k |-> "object", status |-> Num(status), data |-> data]
            /\ result' = Returned(outcome')
            /\ pc' = "returned"
       ELSE /\ outcome' = AxiosStatusError(status, data)
            /\ result' = Thrown(outcome')
            /\ pc' = "thrown"
    /\ UNCHANGED <<env, proc, binance, startupLog, call, callerParams, params,
                   signing, config, res>>

\* the connection is refused or the host does not resolve
AxiosNetworkError(code) ==
    /\ pc = "pending"
    /\ outcome' = AxiosNoResponse(code)
    /\ result' = Thrown(outcome')
    /\ pc' = "thrown"
    /\ UNCHANGED <<env, proc, binance, startupLog, call, callerParams, params,
                   signing, config, res>>

\* the timer of config.timeout fires before a response arrived
AxiosTimeout ==
    /\ pc = "pending"
    /\ config.timeout > 0
    /\ outcome' = AxiosNoResponse("ECONNABORTED")
    /\ result' = Thrown(outcome')
    /\ pc' = "thrown"
    /\ UNCHANGED <<env, proc, binance, startupLog, call, callerParams, params,
                   signing, config, res>>

\* the route handler after the await: res.status(200).json(...)
RouteSuccess ==
    /\ pc = "returned"
    /\ res' = RouteJson(result)
    /\ pc' = "responded"
    /\ UNCHANGED <<env, proc, binance, startupLog, call, callerParams, params,
                   signing, config, outcome, result>>

\* the route handler's catch: next(error), which runs errorHandler
RouteFailure ==
    /\ pc = "thrown"
    /\ res' = errorHandler(result, env.NODE_ENV)
    /\ pc' = "responded"
    /\ UNCHANGED <<env, proc, binance, startupLog, call, callerParams, params,
                   signing, config, outcome, result>>

\* the response is sent; the locals of the request are gone
Finish ==
    /\ pc = "responded"
    /\ pc' = "idle"
    /\ call' = Undef
    /\ callerParams' = <<>>
    /\ params' = <<>>
    /\ signing' = Undef
    /\ config' = Undef
    /\ outcome' = Undef
    /\ result' = Undef
    /\ res' = Undef
    /\ UNCHANGED <<env, proc, binance, startupLog>>

Next ==
    \/ Startup
    \/ Listen
    \/ RouteHandler
    \/ \E status \in SuccessStatus, data \in SuccessBodies : AxiosResponse(status, data)
    \/ \E status \in ErrorStatus, data \in ErrorBodies : AxiosResponse(status, data)
    \/ \E code \in {"ECONNREFUSED", "ENOTFOUND"} : AxiosNetworkError(code)
    \/ AxiosTimeout
    \/ RouteSuccess
    \/ RouteFailure
    \/ Finish

Spec == Init /\ [][Next]_vars

\* the timer of a pending request fires unless the request completes first
LiveSpec == Spec /\ WF_vars(AxiosTimeout)

(***************************************************************************)
(* Properties                                                              *)
(***************************************************************************)
Requested   == pc = "pending"
KeySet(o)   == {o[i].key : i \in 1..Len(o)}
AmpSignatureEq == <<38>> \o K_signature \o <<61>>      \* "&signature="

\* the whole mapping p is what the request carries in its URL query
InQuery(c, p) ==
    /\ c.data = Undef
    /\ c.url.query = IF p = <<>> THEN Undef ELSE Units(JoinPairs(ObjectKeys(p), p))

\* the whole mapping p is what the request carries in its body
InBody(c, p) ==
    /\ c.url.query = Undef
    /\ c.data = [k |-> "object", entries |-> p]

\* the caught error is a response outside 2xx / no response / a timeout
StatusError(o)  == o.k = "error" /\ Truthy(Field(o, "response"))
Unreachable(o)  == o.k = "error" /\ Field(o, "code") \in {Str("ECONNREFUSED"), Str("ENOTFOUND")}
TimedOut(o)     == o.k = "error" /\ Field(o, "code") = Str("ECONNABORTED")

\* the kind of result a rendered response stands for
Kind(r) ==
    CASE Field(r.body, "error") = "Binance API Error"     -> "UpstreamError"
      [] Field(r.body, "error") = "Service Unavailable"   -> "Unreachable"
      [] Field(r.body, "error") = "Internal Server Error" -> "Unknown"
      [] OTHER                                            -> "Success"

\* C1: in every signed call the signed string is the canonical string of
\* the caller's params plus the timestamp, the signed mapping has no
\* signature key, and what is transmitted is the signed mapping plus the
\* signature field, nothing else added, removed or changed.
C1_SignedThenSent ==
    (Requested /\ call.requiresSignature) =>
        /\ signing.stamped = Set(call.params, K_timestamp, Get(signing.stamped, K_timestamp))
        /\ signing.queryString = JoinPairs(Sort(ObjectKeys(signing.stamped)), signing.stamped)
        /\ K_signature \notin KeySet(signing.stamped)
        /\ KeySet(params) = KeySet(signing.stamped) \cup {K_signature}
        /\ \A key \in KeySet(signing.stamped) : Get(params, key) = Get(signing.stamped, key)
        /\ Get(params, K_signature) = Units(signing.signature)
        /\ IF ParamsInUrl(call.method) THEN InQuery(config, params) ELSE InBody(config, params)

\* C2 (as stated): GET and DELETE carry every parameter in the URL query
\* and none in the body; POST and PUT carry every parameter in the body and
\* none in the query.
C2_GetDeleteInQuery ==
    Requested =>
        IF call.method \in {"GET", "DELETE"}
        THEN InQuery(config, params)
        ELSE InBody(config, params)

\* C2 (amended): GET carries every parameter in the URL query and none in
\* the body; POST, PUT and DELETE carry every parameter in the body and
\* none in the query.
C2_GetInQueryElseBody ==
    Requested =>
        /\ IF call.method = "GET"
           THEN InQuery(config, params)
           ELSE InBody(config, params)
        /\ call.requiresSignature => HasKey(params, K_signature)

C2_Witness ==
    /\ Requested
    /\ call.method = "DELETE"
    /\ call.requiresSignature
    /\ Len(call.params) > 0
    /\ config.data # Undef

\* C3: an upstream answer outside 2xx whose body is an error object reaches
\* the client as an upstream error with the upstream status, the upstream
\* code (UNKNOWN_ERROR when the body has none) and the upstream msg.
C3_UpstreamErrorRendered ==
    (pc = "responded" /\ StatusError(outcome) /\ outcome.response.data.k = "object") =>
        /\ Kind(res) = "UpstreamError"
        /\ res.status = outcome.response.status
        /\ Field(res.body, "code") = Or(Field(outcome.response.data, "code"), Str("UNKNOWN_ERROR"))
        /\ Field(res.body, "message") = outcome.response.data.msg

\* C4: a refused connection or a failed DNS lookup reaches the client as
\* 503 CONNECTION_ERROR, unlike the rendering of any upstream error answer.
C4_UnreachableRendered ==
    (pc = "responded" /\ Unreachable(outcome)) =>
        /\ Kind(res) = "Unreachable"
        /\ res.status = Num(503)
        /\ Field(res.body, "code") = Str("CONNECTION_ERROR")
        /\ \A status \in ErrorStatus, data \in ErrorBodies :
              res # errorHandler(Thrown(AxiosStatusError(status, data)), env.NODE_ENV)

\* C5 (as stated): a call that timed out reaches the client as a result of a
\* kind of its own, neither Unreachable nor Unknown.
C5_TimeoutKind ==
    (pc = "responded" /\ TimedOut(outcome)) => Kind(res) \notin {"Unreachable", "Unknown"}

\* C5 (amended): a pending call always completes, and a call that timed out
\* is thrown as status 500 with code REQUEST_FAILED and reaches the client
\* as the generic 500 answer, the same kind as an unclassified failure.
C5_TimeoutCompletes ==
    /\ [](Requested => <>(~Requested))
    /\ []((pc \in {"thrown", "responded"} /\ TimedOut(outcome)) =>
            /\ result.status = Num(500)
            /\ result.code = Str("REQUEST_FAILED")
            /\ result.error.msg = Str("timeout of 30000ms exceeded"))
    /\ []((pc = "responded" /\ TimedOut(outcome)) =>
            /\ Kind(res) = "Unknown"
            /\ res.status = Num(500))

C5_Witness == pc = "responded" /\ TimedOut(outcome) /\ config.timeout = 30000

\* C6: an unsigned call passes the caller's params through unmodified: the
\* request carries exactly the caller's keys and values, and neither the
\* request nor the caller's object gains a timestamp or signature key.
C6_UnsignedPassthrough ==
    (Requested /\ ~call.requiresSignature) =>
        /\ callerParams = call.params
        /\ params = call.params
        /\ signing = Undef
        /\ IF call.method = "GET"
           THEN InQuery(config, call.params)
           ELSE InBody(config, call.params)
        /\ (call.method = "GET" /\ call.params = <<[key |-> K_symbol, val |-> Units(V_BTC)]>>)
              => config.url.query = Units(K_symbol \o <<61>> \o V_BTC)

C6_Witness ==
    /\ Requested
    /\ ~call.requiresSignature
    /\ call.method = "GET"
    /\ call.params = <<[key |-> K_symbol, val |-> Units(V_BTC)]>>

\* C7 (as stated): every request carries the header X-API-KEY with the
\* credential's key, Content-Type: application/json and a client-agent header.
C7_XApiKeyHeader ==
    Requested =>
        /\ "X-API-KEY" \in DOMAIN config.headers
        /\ config.headers["X-API-KEY"] = env.BINANCE_API_KEY
        /\ config.headers["Content-Type"] = Str("application/json")
        /\ "User-Agent" \in DOMAIN config.headers

\* C7 (amended): every request, signed or not and for every method, carries
\* the header X-MBX-APIKEY with the credential's key, Content-Type:
\* application/json and the User-Agent header, and no other header.
C7_MbxApiKeyHeader ==
    Requested =>
        /\ DOMAIN config.headers = {"X-MBX-APIKEY", "Content-Type", "User-Agent"}
        /\ config.headers["X-MBX-APIKEY"] = env.BINANCE_API_KEY
        /\ Truthy(config.headers["X-MBX-APIKEY"])
        /\ config.headers["Content-Type"] = Str("application/json")
        /\ config.headers["User-Agent"] = Str("LockBay-Binance-Proxy/1.0.0")

C7_Witness ==
    /\ Requested
    /\ ~call.requiresSignature
    /\ call.method = "POST"
    /\ config.headers["X-MBX-APIKEY"] = Units(<<75>>)

\* C8: with the key or the secret unset or empty the construction of the
\* client throws, and no request is ever issued by a client without both.
C8_NoClientWithoutCredentials ==
    /\ (proc # "starting" /\ (~Truthy(env.BINANCE_API_KEY) \/ ~Truthy(env.BINANCE_API_SECRET)))
          => (proc = "crashed" /\ binance = Undef /\ pc = "idle")
    /\ pc # "idle" => (Truthy(binance.apiKey) /\ Truthy(binance.apiSecret))

C8_Witness ==
    /\ proc = "crashed"
    /\ Truthy(env.BINANCE_API_KEY)
    /\ ~Truthy(env.BINANCE_API_SECRET)

\* C9: when a signed call fails during signing, the caller's params object
\* is exactly what it was before the call.
C9_FailedSigningLeavesParams ==
    (pc = "thrown" /\ call.requiresSignature /\ signing.threw) => callerParams = call.params

\* C10: in every signed GET call the transmitted query string without its
\* trailing &signature=<hex> is, character for character, the signed string
\* (stated for callers that pass no signature key of their own, whose case
\* is C1's).
C10_QueryIsSignedString ==
    (Requested /\ call.requiresSignature /\ call.method = "GET"
               /\ ~HasKey(call.params, K_signature)) =>
        config.url.query = Units(signing.queryString \o AmpSignatureEq \o signing.signature)

=============================================================================
